---- MODULE Spec2Model ----
(***************************************************************************)
(* Model of tools.py: the import-validation pipeline                       *)
(* (check_columns_existence, clean_exercise_sheet, import_exercise_sheet,  *)
(* import_month), the statistics of a month (exercise_statistics), the     *)
(* projection of the current month (exercise_projection) and the           *)
(* stratification of a month into nth-set-of-the-day series                *)
(* (stratify_exercise_month).                                              *)
(*                                                                         *)
(* A DataFrame is a record [cols, rows]: cols is the set of column names,  *)
(* rows the sequence of rows in row order.  A row has one cell per         *)
(* required column; a cell is a record [k, v] whose kind k tells what the  *)
(* spreadsheet cell holds: "na" (absent: None/NaN/NaT), a typed value      *)
(* ("ts" a Timestamp, "int" an integer, "txt" a string), "str" (a string   *)
(* that parses to the typed value v) or "bad" (a string that does not      *)
(* parse).  Dates are calendar dates <<year, month, day>>: the date column *)
(* of the log holds days, without a time of day.                           *)
(*                                                                         *)
(* table is the frame the functions are given: the one table of the        *)
(* document's sheet, or the caller's DataFrame.  out is the call under way *)
(* with what it returned or raised; date.today() is an input of the call.  *)
(***************************************************************************)
EXTENDS Integers, Sequences, FiniteSets, TLC

VARIABLES table, out

vars == <<table, out>>

(***************************************************************************)
(* Bounds of the model.                                                    *)
(***************************************************************************)
MaxRawRows == 3     \* rows of a raw table (import-validation pipeline)
MaxRecords == 4     \* rows of a month's log (stratification, statistics)
MaxLogged  == 3     \* rows of the current month's log (projection)

(***************************************************************************)
(* Cells.                                                                  *)
(***************************************************************************)
NaT         == [k |-> "na",  v |-> <<0, 0, 0>>]
Ts(y, m, d) == [k |-> "ts",  v |-> <<y, m, d>>]
DateStr(y, m, d) == [k |-> "str", v |-> <<y, m, d>>]
BadDate     == [k |-> "bad", v |-> <<0, 0, 0>>]

NaN         == [k |-> "na",  v |-> 0]
IntVal(n)   == [k |-> "int", v |-> n]
NumStr(n)   == [k |-> "str", v |-> n]
BadCount    == [k |-> "bad", v |-> 0]

NoText      == [k |-> "na",  v |-> ""]
Text(s)     == [k |-> "txt", v |-> s]

\* pandas isna(): None, NaN and NaT are the absent values
isna(c) == c.k = "na"

col_names_req == {"date", "time", "location", "exercise", "count"}
ExtraCol == "notes"

\* column col of a frame's rows, in row order
Col(rows, col) == [i \in 1..Len(rows) |-> rows[i][col]]

\* rows with column col replaced by the cells of s
SetCol(rows, col, s) == [i \in 1..Len(rows) |-> [rows[i] EXCEPT ![col] = s[i]]]

(***************************************************************************)
(* check_columns_existence: a warning when a column is not one of the five,*)
(* an error when one of the five is missing.                               *)
(***************************************************************************)
\* the check with any column set other than the five an error
check_columns_exact(df) ==
    [warned |-> ~(df.cols \subseteq col_names_req),
     raised |-> df.cols # col_names_req]

check_columns_existence(df) ==
    [warned |-> ~(df.cols \subseteq col_names_req),
     raised |-> ~(col_names_req \subseteq df.cols)]

(***************************************************************************)
(* Series.ffill(): top to bottom, an absent cell takes the value of the    *)
(* cell above it after that one has been filled; an absent cell with no    *)
(* non-absent cell above it stays absent.                                  *)
(***************************************************************************)
\* a fill from the cell above as it was read, not as it was filled
\* (fillna(shift()) in place of ffill())
ffill_from_raw(s) ==
    [i \in 1..Len(s) |-> IF isna(s[i]) /\ i > 1 THEN s[i - 1] ELSE s[i]]

\* a fill of every absent cell with the first cell of the column
ffill_from_first(s) ==
    [i \in 1..Len(s) |-> IF isna(s[i]) THEN s[1] ELSE s[i]]

RECURSIVE ffill(_)
ffill(s) ==
    IF Len(s) <= 1 THEN s
    ELSE LET p    == ffill(SubSeq(s, 1, Len(s) - 1))
             last == s[Len(s)]
         IN  Append(p, IF isna(last) THEN p[Len(p)] ELSE last)

\* pd.to_datetime on one cell: a Timestamp stays, a date string is parsed,
\* an absent value becomes NaT
to_datetime(c) ==
    CASE c.k = "ts"  -> c
      [] c.k = "str" -> [k |-> "ts", v |-> c.v]
      [] OTHER       -> NaT

\* pd.to_datetime raises on a column holding a string that is no date
to_datetime_raises(s) == \E i \in 1..Len(s) : s[i].k = "bad"

\* astype('int') on one cell: an int stays, a numeric string is converted
astype_int(c) ==
    CASE c.k = "int" -> c
      [] c.k = "str" -> [k |-> "int", v |-> c.v]
      [] OTHER       -> c

\* astype('int') raises on a string that is no number (and on NaN)
astype_int_raises(s) == \E i \in 1..Len(s) : s[i].k \in {"bad", "na"}

(***************************************************************************)
(* clean_exercise_sheet(df), step by step.  The result is [status, warned, *)
(* df]: df is the frame object as the call leaves it (the frame is         *)
(* assigned to in place, column by column, and the same object is          *)
(* returned).                                                              *)
(***************************************************************************)
cleaned(st, warned, cols, rows) ==
    [status |-> st, warned |-> warned, df |-> [cols |-> cols, rows |-> rows]]

\* df[cols_to_ffill] = df[cols_to_ffill].ffill()
ffill_columns(rows) ==
    SetCol(SetCol(SetCol(rows,
        "date", ffill(Col(rows, "date"))),
        "location", ffill(Col(rows, "location"))),
        "exercise", ffill(Col(rows, "exercise")))

\* df[col] = pd.to_datetime(df[col])
cast_datetime(rows, col) ==
    SetCol(rows, col, [i \in 1..Len(rows) |-> to_datetime(rows[i][col])])

\* df['count'] = df['count'].astype('int')
cast_count(rows) ==
    SetCol(rows, "count", [i \in 1..Len(rows) |-> astype_int(rows[i].count)])

\* the cast of count, on the rows with date and time cast
clean_count(warned, cols, rows) ==
    IF astype_int_raises(Col(rows, "count"))
    THEN cleaned("ParseError", warned, cols, rows)
    ELSE cleaned("ok", warned, cols, cast_count(rows))

\* the cast of time, on the rows with date cast
clean_time(warned, cols, rows) ==
    IF to_datetime_raises(Col(rows, "time"))
    THEN cleaned("ParseError", warned, cols, rows)
    ELSE clean_count(warned, cols, cast_datetime(rows, "time"))

\* the cast of date, on the forward-filled rows
clean_date(warned, cols, rows) ==
    IF to_datetime_raises(Col(rows, "date"))
    THEN cleaned("ParseError", warned, cols, rows)
    ELSE clean_time(warned, cols, cast_datetime(rows, "date"))

\* the check of the count column alone
has_missing_count(rows) ==
    \E i \in 1..Len(rows) : isna(rows[i].count)

\* the time and count columns hold no absent value
has_missing_values(rows) ==
    \E i \in 1..Len(rows) : isna(rows[i].time) \/ isna(rows[i].count)

clean_checked(chk, cols, rows) ==
    IF chk.raised THEN cleaned("SchemaError", chk.warned, cols, rows)
    ELSE IF has_missing_values(rows)
    THEN cleaned("IncompleteDataError", chk.warned, cols, rows)
    ELSE clean_date(chk.warned, cols, ffill_columns(rows))

clean_exercise_sheet(df) ==
    clean_checked(check_columns_existence(df), df.cols, df.rows)

(***************************************************************************)
(* DataFrame.dropna(axis=0, how='all') then dropna(axis=1, how='all'): the *)
(* rows whose cells are all absent go, then the columns whose cells are    *)
(* all absent.  The cells of the extra column are never absent.            *)
(***************************************************************************)
RECURSIVE SelectRows(_, _)
SelectRows(rows, keep) ==
    IF rows = <<>> THEN <<>>
    ELSE IF keep[1]
    THEN <<rows[1]>> \o SelectRows(Tail(rows), Tail(keep))
    ELSE SelectRows(Tail(rows), Tail(keep))

cell_absent(row, c) == c # ExtraCol /\ isna(row[c])

dropna_rows(df) ==
    [cols |-> df.cols,
     rows |-> SelectRows(df.rows,
                 [i \in 1..Len(df.rows) |->
                     \E c \in df.cols : ~cell_absent(df.rows[i], c)])]

dropna_cols(df) ==
    [cols |-> {c \in df.cols :
                 \E i \in 1..Len(df.rows) : ~cell_absent(df.rows[i], c)},
     rows |-> df.rows]

(***************************************************************************)
(* The Numbers document holds one sheet, named for SheetYear-SheetMonth.   *)
(* import_exercise_sheet(doc, sheetname): the sheet must exist and hold    *)
(* exactly one table (ntables); the table is read into a new frame, its    *)
(* empty rows and columns are dropped and the frame is cleaned.            *)
(***************************************************************************)
SheetYear  == 2024
SheetMonth == 11

import_exercise_sheet(df, ntables, year, month) ==
    IF <<year, month>> # <<SheetYear, SheetMonth>>
    THEN cleaned("SheetNotFoundError", FALSE, df.cols, df.rows)
    ELSE IF ntables # 1
    THEN cleaned("MultiTableError", FALSE, df.cols, df.rows)
    ELSE clean_exercise_sheet(dropna_cols(dropna_rows(df)))

(***************************************************************************)
(* import_month: after the import, the years and then the months of the    *)
(* date and time columns must be one value, the requested one.  The year   *)
(* and month of NaT are NaN (0 here), a value of their own.                *)
(***************************************************************************)
dt_year(c)  == IF isna(c) THEN 0 ELSE c.v[1]
dt_month(c) == IF isna(c) THEN 0 ELSE c.v[2]
dt_day(c)   == IF isna(c) THEN 0 ELSE c.v[3]

unique(s) == {s[i] : i \in 1..Len(s)}

years_of(rows, col)  == unique([i \in 1..Len(rows) |-> dt_year(rows[i][col])])
months_of(rows, col) == unique([i \in 1..Len(rows) |-> dt_month(rows[i][col])])

\* the check that the wanted value is among the values
vals_lack(vals, wanted) == wanted \notin vals

\* (len(vals) > 1) or (vals[0] != wanted); vals[0] of no value raises
vals_mismatch(vals, wanted) == Cardinality(vals) # 1 \/ vals # {wanted}

check_month(imp, year, month) ==
    IF imp.status # "ok" THEN imp
    ELSE IF \E c \in {"date", "time"} :
                vals_mismatch(years_of(imp.df.rows, c), year)
    THEN [imp EXCEPT !.status = "MonthMismatchError"]
    ELSE IF \E c \in {"date", "time"} :
                vals_mismatch(months_of(imp.df.rows, c), month)
    THEN [imp EXCEPT !.status = "MonthMismatchError"]
    ELSE imp

import_month(df, ntables, year, month) ==
    check_month(import_exercise_sheet(df, ntables, year, month), year, month)

(***************************************************************************)
(* Arithmetic on columns of counts.                                        *)
(***************************************************************************)
RECURSIVE Sum(_)
Sum(s) == IF s = <<>> THEN 0 ELSE s[1] + Sum(Tail(s))

RECURSIVE Max(_)
Max(s) == IF Len(s) <= 1 THEN s[1]
          ELSE IF s[1] >= Max(Tail(s)) THEN s[1] ELSE Max(Tail(s))

\* x put into the descending sequence s, after the entries equal to it
RECURSIVE InsertDesc(_, _)
InsertDesc(x, s) ==
    IF s = <<>> THEN <<x>>
    ELSE IF x > s[1] THEN <<x>> \o s
    ELSE <<s[1]>> \o InsertDesc(x, Tail(s))

\* sort_values(by='count', ascending=False) on the counts
RECURSIVE sort_desc(_)
sort_desc(s) ==
    IF s = <<>> THEN <<>>
    ELSE InsertDesc(s[Len(s)], sort_desc(SubSeq(s, 1, Len(s) - 1)))

\* mean and median as exact fractions [num, den]
mean(s) == [num |-> Sum(s), den |-> Len(s)]

median_sorted(a) ==
    IF Len(a) % 2 = 1 THEN [num |-> a[(Len(a) + 1) \div 2], den |-> 1]
    ELSE [num |-> a[Len(a) \div 2] + a[(Len(a) \div 2) + 1], den |-> 2]

median(s) == median_sorted(sort_desc(s))

\* calendar.monthrange(year, month)[1]
isleap(y) == y % 4 = 0 /\ (y % 100 # 0 \/ y % 400 = 0)

monthrange(y, m) ==
    IF m = 2 THEN (IF isleap(y) THEN 29 ELSE 28)
    ELSE IF m \in {4, 6, 9, 11} THEN 30 ELSE 31

(***************************************************************************)
(* The rows of one exercise, and their counts by date.                     *)
(***************************************************************************)
\* df[df["exercise"] == exercise]
filter_exercise(rows, exercise) ==
    SelectRows(rows, [i \in 1..Len(rows) |-> rows[i].exercise = Text(exercise)])

\* the check made on the first row's exercise alone
exercise_missing_first(rows, exercise) ==
    rows = <<>> \/ rows[1].exercise # Text(exercise)

\* exercise not in df["exercise"].unique()
exercise_missing(rows, exercise) ==
    Text(exercise) \notin unique(Col(rows, "exercise"))

\* the keys of groupby('date'): the dates present (NaT is no key)
group_keys(rows) ==
    {rows[i].date.v : i \in {j \in 1..Len(rows) : ~isna(rows[j].date)}}

\* the counts of the rows of one date, in row order
group_counts(rows, key) ==
    Col(SelectRows(Col(rows, "count"),
            [i \in 1..Len(rows) |-> ~isna(rows[i].date) /\ rows[i].date.v = key]),
        "v")

\* day range: the current day in the current month, else the month's length
day_range_of(year, month, today) ==
    IF month = today[2] /\ year = today[1] THEN today[3]
    ELSE monthrange(year, month)

\* the values of a groupby result in index order (dates of one month: by day)
RECURSIVE by_date(_, _)
by_date(totals, ks) ==
    IF ks = {} THEN <<>>
    ELSE <<totals[CHOOSE x \in ks : \A y \in ks : x[3] <= y[3]]>>
         \o by_date(totals, ks \ {CHOOSE x \in ks : \A y \in ks : x[3] <= y[3]})

(***************************************************************************)
(* exercise_statistics(filepath, exercise, year, month), run on the day    *)
(* today.  The summary holds the values the function prints.               *)
(***************************************************************************)
\* df_subset.groupby('date')['count'].sum()
day_totals_of(df_subset) ==
    [key \in group_keys(df_subset) |-> Sum(group_counts(df_subset, key))]

\* the day sums with the void days of the day range filled in as 0
fill_void_days(day_totals, year, month, day_range) ==
    [day \in 1..day_range |->
        IF <<year, month, day>> \in DOMAIN day_totals
        THEN day_totals[<<year, month, day>>] ELSE 0]

summary_of(warned, day_range, counts, days, sums, sums_inc) ==
    [status |-> "ok", warned |-> warned,
     day_range |-> day_range,
     total |-> Sum(counts),
     days_done |-> Cardinality(days),
     max_reps_in_set |-> Max(counts),
     mean_reps_in_set |-> mean(counts),
     median_reps_in_set |-> median(counts),
     day_totals |-> sums,
     day_totals_inc |-> sums_inc,
     max_reps_in_day |-> Max(sums),
     mean_reps_in_day |-> mean(sums),
     mean_reps_in_day_inc |-> mean(sums_inc),
     median_reps_in_day |-> median(sums),
     median_reps_in_day_inc |-> median(sums_inc)]

statistics_of_subset(warned, df_subset, day_totals, year, month, day_range) ==
    summary_of(warned, day_range,
        Col(Col(df_subset, "count"), "v"),
        unique([i \in 1..Len(df_subset) |-> dt_day(df_subset[i].date)]),
        by_date(day_totals, DOMAIN day_totals),
        fill_void_days(day_totals, year, month, day_range))

statistics_of_month(imp, exercise, year, month, day_range) ==
    IF imp.status # "ok"
    THEN [status |-> imp.status, warned |-> imp.warned]
    ELSE IF exercise_missing(imp.df.rows, exercise)
    THEN [status |-> "ExerciseNotFoundError", warned |-> imp.warned]
    ELSE statistics_of_subset(imp.warned,
             filter_exercise(imp.df.rows, exercise),
             day_totals_of(filter_exercise(imp.df.rows, exercise)),
             year, month, day_range)

exercise_statistics(df, ntables, exercise, year, month, today) ==
    statistics_of_month(import_month(df, ntables, year, month),
                        exercise, year, month,
                        day_range_of(year, month, today))

(***************************************************************************)
(* exercise_projection(filepath, exercise, goal_total), run on the day     *)
(* today: the sheet of today's year and month is imported.  The result     *)
(* holds the values the function prints.  A quotient is kept as the pair   *)
(* [num, den] of what is divided by what; the counts are numpy integers,   *)
(* so a division by 0 does not raise: its value is inf, -inf or nan.       *)
(***************************************************************************)
true_divide(num, den) == [num |-> num, den |-> den]

\* df_subset[df_subset['date'].dt.day == day]
rows_of_day(df_subset, day) ==
    SelectRows(df_subset,
        [i \in 1..Len(df_subset) |-> dt_day(df_subset[i].date) = day])

\* the morning pace with today's sets left in the month's sum
reps_per_day_morning_with_today(goal_total, sum_month, sum_day, days_in_month, day) ==
    true_divide(goal_total - sum_month, days_in_month - (day - 1))

\* reps per day for the rest of the month as of this morning (no reps today)
reps_per_day_morning(goal_total, sum_month, sum_day, days_in_month, day) ==
    true_divide(goal_total - (sum_month - sum_day), days_in_month - (day - 1))

\* reps per day for the rest of the month at end of day (no more reps today)
reps_per_day_eod(goal_total, sum_month, days_in_month, day) ==
    true_divide(goal_total - sum_month, days_in_month - day)

projected(warned, goal_total, sum_month, sum_day, days_in_month, day) ==
    [status |-> "ok", warned |-> warned,
     sum_day |-> sum_day,
     sum_month |-> sum_month,
     days_in_month |-> days_in_month,
     reps_per_day_morning |->
         reps_per_day_morning(goal_total, sum_month, sum_day, days_in_month, day),
     reps_per_day_eod |->
         reps_per_day_eod(goal_total, sum_month, days_in_month, day)]

projection_of_subset(warned, df_subset, goal_total, year, month, day) ==
    projected(warned, goal_total,
        Sum(Col(Col(df_subset, "count"), "v")),
        Sum(Col(Col(rows_of_day(df_subset, day), "count"), "v")),
        monthrange(year, month), day)

projection_of_month(imp, exercise, goal_total, year, month, day) ==
    IF imp.status # "ok"
    THEN [status |-> imp.status, warned |-> imp.warned]
    ELSE IF exercise_missing(imp.df.rows, exercise)
    THEN [status |-> "ExerciseNotFoundError", warned |-> imp.warned]
    ELSE projection_of_subset(imp.warned,
             filter_exercise(imp.df.rows, exercise),
             goal_total, year, month, day)

exercise_projection(df, ntables, exercise, goal_total, today) ==
    projection_of_month(import_month(df, ntables, today[1], today[2]),
                        exercise, goal_total, today[1], today[2], today[3])

(***************************************************************************)
(* stratify_exercise_month(df, exercise), run on the day today.  The       *)
(* result is [status, warned, df, series]: df is the caller's frame as the *)
(* call leaves it, series the list nth_set_list, each series a sequence of *)
(* [date, count] rows, one per day of the day range.                       *)
(***************************************************************************)
stratified(cln, st, series) ==
    [status |-> st, warned |-> cln.warned, df |-> cln.df, series |-> series]

\* per_day_dict_of without the sort: each day's sets in row order
per_day_dict_unsorted(df_filtered) ==
    [key \in group_keys(df_filtered) |-> group_counts(df_filtered, key)]

\* the days' sets, each day's sorted by count, descending
per_day_dict_of(df_filtered) ==
    [key \in group_keys(df_filtered) |->
        sort_desc(group_counts(df_filtered, key))]

\* max(sets_per_day)
max_of(sizes) == CHOOSE n \in sizes : \A k \in sizes : k <= n

\* nth_set with the loop over the days ending one day early
nth_set_short(per_day_dict, n, year, month, day_range) ==
    [day \in 1..(day_range - 1) |->
        IF <<year, month, day>> \in DOMAIN per_day_dict
           /\ n + 1 <= Len(per_day_dict[<<year, month, day>>])
        THEN [date |-> <<year, month, day>>,
              count |-> per_day_dict[<<year, month, day>>][n + 1]]
        ELSE [date |-> <<year, month, day>>, count |-> 0]]

\* the frame of the nth set (n from 0) of every day of the day range
nth_set(per_day_dict, n, year, month, day_range) ==
    [day \in 1..day_range |->
        IF <<year, month, day>> \in DOMAIN per_day_dict
           /\ n + 1 <= Len(per_day_dict[<<year, month, day>>])
        THEN [date |-> <<year, month, day>>,
              count |-> per_day_dict[<<year, month, day>>][n + 1]]
        ELSE [date |-> <<year, month, day>>, count |-> 0]]

nth_set_list_of(per_day_dict, n_sets_max, year, month, day_range) ==
    [n \in 1..n_sets_max |-> nth_set(per_day_dict, n - 1, year, month, day_range)]

stratify_days(cln, per_day_dict, year, month, today) ==
    IF DOMAIN per_day_dict = {}     \* max() of an empty list raises
    THEN stratified(cln, "ValueError", <<>>)
    ELSE stratified(cln, "ok",
             nth_set_list_of(per_day_dict,
                 max_of({Len(per_day_dict[key]) : key \in DOMAIN per_day_dict}),
                 year, month, day_range_of(year, month, today)))

stratify_cleaned(cln, exercise, today) ==
    IF cln.status # "ok" THEN stratified(cln, cln.status, <<>>)
    ELSE IF Cardinality(months_of(cln.df.rows, "date")) # 1
            \/ Cardinality(years_of(cln.df.rows, "date")) # 1
    THEN stratified(cln, "MultiMonthError", <<>>)
    ELSE IF exercise_missing(cln.df.rows, exercise)
    THEN stratified(cln, "ExerciseNotFoundError", <<>>)
    ELSE stratify_days(cln,
             per_day_dict_of(filter_exercise(cln.df.rows, exercise)),
             CHOOSE y \in years_of(cln.df.rows, "date") : TRUE,
             CHOOSE m \in months_of(cln.df.rows, "date") : TRUE,
             today)

stratify_exercise_month(df, exercise, today) ==
    stratify_cleaned(clean_exercise_sheet(df), exercise, today)

(***************************************************************************)
(* Inputs.  A raw table's header is one of ColumnSets: the five required   *)
(* columns, with at most one of them missing and at most one extra column. *)
(* A raw row is PlainRow with at most one cell replaced.  Under a header   *)
(* that lacks a required column the column check fails before any cell is  *)
(* read: such tables hold the rows that would fail the check after it.     *)
(***************************************************************************)
ColumnSets ==
    {col_names_req \ missing : missing \in {{}} \cup {{c} : c \in col_names_req}}
    \cup {(col_names_req \ missing) \cup {ExtraCol} :
             missing \in {{}} \cup {{c} : c \in col_names_req}}

PlainRow ==
    [date     |-> Ts(SheetYear, SheetMonth, 1),
     time     |-> Ts(SheetYear, SheetMonth, 1),
     location |-> Text("home"),
     exercise |-> Text("pushups"),
     count    |-> IntVal(5)]

RawCells(c) ==
    CASE c = "date" -> {NaT, Ts(SheetYear, SheetMonth, 2),
                        Ts(SheetYear + 1, SheetMonth, 1), BadDate}
      [] c = "time" -> {NaT, DateStr(SheetYear, SheetMonth + 1, 1)}
      [] c = "location" -> {NoText}
      [] c = "exercise" -> {NoText}
      [] c = "count" -> {NaN, NumStr(8), BadCount}

RawRows ==
    {PlainRow} \cup
    UNION {{[PlainRow EXCEPT ![c] = v] : v \in RawCells(c)} : c \in col_names_req}

RawRowsFor(cols) ==
    IF col_names_req \subseteq cols THEN RawRows
    ELSE {r \in {PlainRow, [PlainRow EXCEPT !.time = NaT],
                 [PlainRow EXCEPT !.count = NaN]} :
             \A c \in col_names_req \ cols : r[c] = PlainRow[c]}

\* a month's log holds typed rows of the sheet's month, dated day 1 or 2;
\* the counts a set of pushups can have on each of the two days
CountsOn(d) == IF d = 1 THEN {8, 10, 12} ELSE {5, 12}

Record(d, e, n) ==
    [date     |-> Ts(SheetYear, SheetMonth, d),
     time     |-> Ts(SheetYear, SheetMonth, d),
     location |-> Text("home"),
     exercise |-> Text(e),
     count    |-> IntVal(n)]

Records ==
    UNION {{Record(d, "pushups", n) : n \in CountsOn(d)} : d \in {1, 2}}
    \cup {Record(d, "squats", 5) : d \in {1, 2}}

Exercises == {"pushups", "squats"}

\* the days the functions run on: the first days of the sheet's month, and
\* a day of the month after it
Todays ==
    {<<SheetYear, SheetMonth, d>> : d \in {1, 2}}
    \cup {<<SheetYear, SheetMonth + 1, 1>>}

\* the (year, month) and the sheet import_month finds for it: the sheet of
\* SheetYear-SheetMonth holding one table or two, or no sheet
Requests ==
    {[year |-> SheetYear, month |-> SheetMonth, ntables |-> n] : n \in {1, 2}}
    \cup {[year |-> SheetYear, month |-> SheetMonth + 1, ntables |-> 0]}

\* the current month's log: sets of the sheet's month on its days 1, 10
\* and 30 (its last), among them one of an exercise named "Pushups"
ProjectionRecords ==
    {Record(1, "pushups", 90), Record(10, "pushups", 10),
     Record(30, "pushups", 5), Record(10, "Pushups", 5), Record(1, "squats", 5)}

\* the goals for the month's total
Goals == {300, 100}

\* the days exercise_projection runs on: days 10 and 30 of the sheet's
\* month, and a day of the month after it
ProjectionTodays ==
    {<<SheetYear, SheetMonth, d>> : d \in {10, 30}}
    \cup {<<SheetYear, SheetMonth + 1, 1>>}

\* no call is under way and no result is held
Idle == [op |-> "none"]

\* the caller takes the result of the call
Return ==
    /\ out # Idle
    /\ out' = Idle
    /\ UNCHANGED table

(***************************************************************************)
(* The import-validation pipeline on raw tables.                           *)
(***************************************************************************)
Init ==
    /\ table \in {[cols |-> h, rows |-> <<>>] : h \in ColumnSets}
    /\ out = Idle

\* a row is typed into the table
AddRow ==
    /\ out = Idle
    /\ Len(table.rows) < MaxRawRows
    /\ \E r \in RawRowsFor(table.cols) :
          table' = [table EXCEPT !.rows = Append(@, r)]
    /\ UNCHANGED out

\* clean_exercise_sheet(table): the caller's frame is cleaned in place
Validate ==
    /\ out = Idle
    /\ LET res == clean_exercise_sheet(table)
       IN  /\ table' = res.df
           /\ out' = [op |-> "clean", input |-> table, result |-> res]

\* import_month(filepath, year, month) reads the sheet into a frame of its own
ImportMonth ==
    /\ out = Idle
    /\ \E req \in Requests :
          out' = [op     |-> "import_month",
                  req    |-> req,
                  result |-> import_month(table, req.ntables, req.year, req.month)]
    /\ UNCHANGED table

Next == AddRow \/ Validate \/ ImportMonth \/ Return

Spec == Init /\ [][Next]_vars

(***************************************************************************)
(* The stratification and the statistics of a month's log.                 *)
(***************************************************************************)
InitMonth ==
    /\ table = [cols |-> col_names_req, rows |-> <<>>]
    /\ out = Idle

\* a set is logged
AddRecord ==
    /\ out = Idle
    /\ Len(table.rows) < MaxRecords
    /\ \E r \in Records : table' = [table EXCEPT !.rows = Append(@, r)]
    /\ UNCHANGED out

\* stratify_exercise_month(table, exercise) on the day today
Stratify ==
    /\ out = Idle
    /\ \E exercise \in Exercises, today \in Todays :
          LET res == stratify_exercise_month(table, exercise, today)
          IN  /\ table' = res.df
              /\ out' = [op       |-> "stratify",
                         exercise |-> exercise,
                         today    |-> today,
                         input    |-> table,
                         result   |-> res]

NextStrat == AddRecord \/ Stratify \/ Return

SpecStrat == InitMonth /\ [][NextStrat]_vars

\* exercise_statistics(filepath, exercise, year, month) on the day today,
\* for the month of the sheet, which holds the one table
ExerciseStatistics ==
    /\ out = Idle
    /\ \E exercise \in Exercises, today \in Todays :
          out' = [op       |-> "statistics",
                  exercise |-> exercise,
                  today    |-> today,
                  result   |-> exercise_statistics(table, 1, exercise,
                                   SheetYear, SheetMonth, today)]
    /\ UNCHANGED table

NextStats == AddRecord \/ ExerciseStatistics \/ Return

SpecStats == InitMonth /\ [][NextStats]_vars

(***************************************************************************)
(* The current month's log, with the projection, the statistics and the    *)
(* stratification run on it.                                               *)
(***************************************************************************)
\* a set of the current month is logged
LogSet ==
    /\ out = Idle
    /\ Len(table.rows) < MaxLogged
    /\ \E r \in ProjectionRecords : table' = [table EXCEPT !.rows = Append(@, r)]
    /\ UNCHANGED out

\* exercise_projection(filepath, exercise, goal_total) on the day today; the
\* document's sheet holds the one table
ExerciseProjection ==
    /\ out = Idle
    /\ \E exercise \in Exercises, goal_total \in Goals, today \in ProjectionTodays :
          out' = [op         |-> "projection",
                  exercise   |-> exercise,
                  goal_total |-> goal_total,
                  today      |-> today,
                  result     |-> exercise_projection(table, 1, exercise,
                                     goal_total, today)]
    /\ UNCHANGED table

NextProj == LogSet \/ ExerciseProjection \/ ExerciseStatistics \/ Stratify \/ Return

SpecProj == InitMonth /\ [][NextProj]_vars

(***************************************************************************)
(* Properties of the stratification.                                       *)
(***************************************************************************)
\* the day range the caller expects on the day today, for the sheet's month
DayRange(today) ==
    IF today[1] = SheetYear /\ today[2] = SheetMonth THEN today[3]
    ELSE monthrange(SheetYear, SheetMonth)

\* the rows of the log that hold a set of the exercise on day d
SetsOn(rows, exercise, d) ==
    {i \in 1..Len(rows) :
        /\ rows[i].exercise = Text(exercise)
        /\ rows[i].date = Ts(SheetYear, SheetMonth, d)}

RECURSIVE TotalCount(_, _)
TotalCount(rows, I) ==
    IF I = {} THEN 0
    ELSE rows[CHOOSE i \in I : TRUE].count.v
         + TotalCount(rows, I \ {CHOOSE i \in I : TRUE})

\* the sum of the series 1..n at day d
RECURSIVE SeriesSum(_, _, _)
SeriesSum(series, n, d) ==
    IF n = 0 THEN 0 ELSE series[n][d].count + SeriesSum(series, n - 1, d)

StratifyDone == out.op = "stratify" /\ out.result.status = "ok"

\* C1: every series the stratification returns has one entry per day
\* 1..dayRange, in day order, and at each day the series sum to the total
\* count logged for the exercise on that day.
StratifierLengthAndSum ==
    StratifyDone =>
        /\ \A n \in 1..Len(out.result.series) :
              /\ Len(out.result.series[n]) = DayRange(out.today)
              /\ \A d \in 1..DayRange(out.today) :
                    out.result.series[n][d].date = <<SheetYear, SheetMonth, d>>
        /\ \A d \in 1..DayRange(out.today) :
              SeriesSum(out.result.series, Len(out.result.series), d)
                  = TotalCount(out.input.rows,
                               SetsOn(out.input.rows, out.exercise, d))

\* C1 witness: a stratification of two series or more over a day range that
\* holds a day of several sets and a later day of one
StratifierLengthAndSumWitness ==
    /\ StratifyDone
    /\ Len(out.result.series) >= 2
    /\ DayRange(out.today) >= 2
    /\ Cardinality(SetsOn(out.input.rows, out.exercise, 1)) >= 2
    /\ Cardinality(SetsOn(out.input.rows, out.exercise, 2)) = 1

\* x is the nth largest of the counts of the rows I (n from 1)
IsNthLargest(x, rows, I, n) ==
    /\ \E i \in I : rows[i].count.v = x
    /\ Cardinality({i \in I : rows[i].count.v > x}) < n
    /\ Cardinality({i \in I : rows[i].count.v >= x}) >= n

\* the log of the end-to-end example: sets of 10, 8, 12 on day 1, 5 on day 2
ExampleLog ==
    <<Record(1, "pushups", 10), Record(1, "pushups", 8),
      Record(1, "pushups", 12), Record(2, "pushups", 5)>>

ExampleStratified ==
    /\ StratifyDone
    /\ out.input.rows = ExampleLog
    /\ out.exercise = "pushups"
    /\ out.today = <<SheetYear, SheetMonth, 2>>

\* the counts of a series, by day
SeriesCounts(series) == [d \in 1..Len(series) |-> series[d].count]

\* C2: series n (from 0) holds at each day the (n+1)-th largest count logged
\* for the exercise on that day, and 0 when the day has fewer than n+1 sets;
\* the example log stratifies into exactly [12,5], [10,0], [8,0].
StratifierRankOrder ==
    /\ StratifyDone =>
          \A n \in 1..Len(out.result.series) :
          \A d \in 1..Len(out.result.series[n]) :
              IF Cardinality(SetsOn(out.input.rows, out.exercise, d)) >= n
              THEN IsNthLargest(out.result.series[n][d].count, out.input.rows,
                                SetsOn(out.input.rows, out.exercise, d), n)
              ELSE out.result.series[n][d].count = 0
    /\ ExampleStratified =>
          [n \in 1..Len(out.result.series) |->
              SeriesCounts(out.result.series[n])]
              = <<(<<12, 5>>), (<<10, 0>>), (<<8, 0>>)>>

\* C2 witness: the example log, stratified on day 2 of its month
StratifierRankOrderWitness ==
    /\ ExampleStratified
    /\ Len(out.result.series) = 3

(***************************************************************************)
(* Properties of the import-validation pipeline.                           *)
(***************************************************************************)
ImportDone == out.op = "import_month"
CleanDone  == out.op = "clean"

\* a date or time cell lies in the year and month
InMonth(c, year, month) ==
    ~isna(c) /\ c.v[1] = year /\ c.v[2] = month

\* the records whose date or time lies outside the year and month
Outside(rows, year, month) ==
    {i \in 1..Len(rows) :
        ~InMonth(rows[i].date, year, month) \/ ~InMonth(rows[i].time, year, month)}

\* C3: import_month returns a record set only when every record's date and
\* time lie in the requested year and month; a validated record set with a
\* record outside them is rejected with the month-mismatch error, however
\* many of its records are inside.
LoadMonthRejectsOutsiders ==
    ImportDone =>
        /\ out.result.status = "ok" =>
              Outside(out.result.df.rows, out.req.year, out.req.month) = {}
        /\ (/\ out.req.ntables = 1
            /\ clean_exercise_sheet(dropna_cols(dropna_rows(table))).status = "ok"
            /\ Outside(clean_exercise_sheet(dropna_cols(dropna_rows(table))).df.rows,
                       out.req.year, out.req.month) # {})
           => out.result.status = "MonthMismatchError"

\* C3 witness: a sheet rejected for one record outside the month among
\* records inside it
LoadMonthRejectsOutsidersWitness ==
    /\ ImportDone
    /\ out.result.status = "MonthMismatchError"
    /\ Len(out.result.df.rows) = 3
    /\ Cardinality(Outside(out.result.df.rows, out.req.year, out.req.month)) = 1

\* C4: the column check fails with the schema error exactly when a required
\* column is missing; an extra column gives a warning and the validation
\* goes on as it does without the extra column.
ColumnCheck ==
    CleanDone =>
        /\ out.result.status = "SchemaError"
              <=> (col_names_req \ out.input.cols # {})
        /\ out.result.warned <=> (out.input.cols \ col_names_req # {})
        /\ out.result.status =
              clean_exercise_sheet([cols |-> out.input.cols \cap col_names_req,
                                    rows |-> out.input.rows]).status
        /\ out.result.df.rows =
              clean_exercise_sheet([cols |-> out.input.cols \cap col_names_req,
                                    rows |-> out.input.rows]).df.rows

\* C4 witness: a table with the five columns and an extra one, validated
\* with a warning
ColumnCheckWitness ==
    /\ CleanDone
    /\ out.input.cols = col_names_req \cup {ExtraCol}
    /\ out.input.rows # <<>>
    /\ out.result.warned
    /\ out.result.status = "ok"

\* the rows of a table with an absent time or count cell
Gaps(rows) ==
    {i \in 1..Len(rows) : isna(rows[i].time) \/ isna(rows[i].count)}

\* C5: with the five columns there, an absent time or count cell fails the
\* validation with the incomplete-data error; without the count column the
\* validation fails with the schema error, absent cells or not.
IncompleteData ==
    CleanDone =>
        /\ (col_names_req \subseteq out.input.cols /\ Gaps(out.input.rows) # {})
              => out.result.status = "IncompleteDataError"
        /\ "count" \notin out.input.cols => out.result.status = "SchemaError"

\* C5 witness: a table of the five columns whose only absent cell is one
\* count cell, failed with the incomplete-data error
IncompleteDataWitness ==
    /\ CleanDone
    /\ out.input.cols = col_names_req
    /\ Len(out.input.rows) = 3
    /\ Cardinality(Gaps(out.input.rows)) = 1
    /\ \E i \in 1..Len(out.input.rows) :
          isna(out.input.rows[i].count) /\ ~isna(out.input.rows[i].time)
    /\ \A i \in 1..Len(out.input.rows) :
          \A c \in {"date", "location", "exercise"} : ~isna(out.input.rows[i][c])
    /\ out.result.status = "IncompleteDataError"

\* C6 (as claimed): whenever the validation returns, every record has its
\* five fields present.
ReturnedRecordsComplete ==
    (CleanDone /\ out.result.status = "ok") =>
        \A i \in 1..Len(out.result.df.rows) :
        \A c \in col_names_req : ~isna(out.result.df.rows[i][c])

\* C7: a record set the validation returned validates again, to itself.
RevalidationIdentity ==
    (CleanDone /\ out.result.status = "ok") =>
        /\ clean_exercise_sheet(out.result.df).status = "ok"
        /\ clean_exercise_sheet(out.result.df).df = out.result.df

\* C7 witness: a fully populated record set returned for a table with
\* absent cells and a cell to parse
RevalidationIdentityWitness ==
    /\ CleanDone
    /\ out.result.status = "ok"
    /\ out.result.df # out.input
    /\ Len(out.result.df.rows) = 3
    /\ \E i \in 1..Len(out.input.rows) : isna(out.input.rows[i].date)
    /\ \E i \in 1..Len(out.input.rows) : out.input.rows[i].count.k = "str"
    /\ \A i \in 1..Len(out.result.df.rows) :
       \A c \in col_names_req : ~isna(out.result.df.rows[i][c])

\* the raw table has the five columns, no gap in time or count, no cell
\* that does not parse, and a first row without absent cells
ValidRaw(df) ==
    /\ col_names_req \subseteq df.cols
    /\ df.rows # <<>>
    /\ Gaps(df.rows) = {}
    /\ \A i \in 1..Len(df.rows) : \A c \in col_names_req : df.rows[i][c].k # "bad"
    /\ \A c \in col_names_req : ~isna(df.rows[1][c])

\* the row of the nearest non-absent cell of column c at or above row i
Nearest(rows, c, i) ==
    CHOOSE j \in 1..i :
        /\ ~isna(rows[j][c])
        /\ \A k \in (j + 1)..i : isna(rows[k][c])

\* C8: a valid raw table validates to as many rows in the same order, each
\* absent date, location or exercise cell holding the value of the nearest
\* non-absent cell above it and every other cell its own value.
ForwardFill ==
    (CleanDone /\ ValidRaw(out.input)) =>
        /\ out.result.status = "ok"
        /\ Len(out.result.df.rows) = Len(out.input.rows)
        /\ \A i \in 1..Len(out.input.rows) :
           \A c \in col_names_req :
              /\ ~isna(out.result.df.rows[i][c])
              /\ out.result.df.rows[i][c].v
                    = out.input.rows[Nearest(out.input.rows, c, i)][c].v

\* C8 witness: a valid raw table whose third row leaves out the date, under
\* a second row of another date than the first
ForwardFillWitness ==
    /\ CleanDone
    /\ ValidRaw(out.input)
    /\ Len(out.input.rows) = 3
    /\ isna(out.input.rows[3].date)
    /\ out.input.rows[2].date.v # out.input.rows[1].date.v
    /\ out.result.df.rows[3].date = out.input.rows[2].date

(***************************************************************************)
(* Properties of the statistics.                                           *)
(***************************************************************************)
StatisticsDone == out.op = "statistics" /\ out.result.status = "ok"

\* C9 (as claimed): in every summary the number of days done is at most
\* the day range: the current day in the current month, else the month's
\* length.
DaysDoneWithinDayRange ==
    StatisticsDone =>
        /\ out.result.day_range = DayRange(out.today)
        /\ out.result.days_done <= DayRange(out.today)

\* C10 (as claimed): the total is the sum of the day sums of the active
\* days, and the sum of the including-void sequence, which has dayRange
\* entries, a day's sum or 0; so the including-void mean times dayRange is
\* the total.
TotalIsSumOfDaySums ==
    StatisticsDone =>
        /\ out.result.total = Sum(out.result.day_totals)
        /\ Len(out.result.day_totals_inc) = DayRange(out.today)
        /\ \A d \in 1..Len(out.result.day_totals_inc) :
              out.result.day_totals_inc[d]
                  = TotalCount(table.rows, SetsOn(table.rows, out.exercise, d))
        /\ out.result.total = Sum(out.result.day_totals_inc)
        /\ out.result.mean_reps_in_day_inc.num * DayRange(out.today)
              = out.result.total * out.result.mean_reps_in_day_inc.den

(***************************************************************************)
(* Properties of the projection.                                           *)
(***************************************************************************)
ProjectionDone == out.op = "projection" /\ out.result.status = "ok"

\* the month's total of the exercise so far, and today's
MonthTotalSoFar == TotalCount(table.rows,
    {i \in 1..Len(table.rows) : table.rows[i].exercise = Text(out.exercise)})

TodayTotal == TotalCount(table.rows,
    SetsOn(table.rows, out.exercise, out.today[3]))

\* the projection of the example: goal 300, 100 so far of which 10 today,
\* on day 10 of a month of 30 days
ExampleProjected ==
    /\ ProjectionDone
    /\ out.goal_total = 300
    /\ out.today = <<SheetYear, SheetMonth, 10>>
    /\ MonthTotalSoFar = 100
    /\ TodayTotal = 10

\* C11: the pace assuming no more today is (goalTotal - monthTotalSoFar)
\* over (daysInMonth - currentDay), the pace as of this morning
\* (goalTotal - (monthTotalSoFar - todayTotal)) over
\* (daysInMonth - (currentDay - 1)), todayTotal the sum of the exercise's
\* counts on currentDay; in the example both paces are 10.
ProjectionPaces ==
    /\ ProjectionDone =>
          /\ out.result.sum_day = TodayTotal
          /\ out.result.reps_per_day_eod =
                [num |-> out.goal_total - MonthTotalSoFar,
                 den |-> monthrange(SheetYear, SheetMonth) - out.today[3]]
          /\ out.result.reps_per_day_morning =
                [num |-> out.goal_total - (MonthTotalSoFar - TodayTotal),
                 den |-> monthrange(SheetYear, SheetMonth) - (out.today[3] - 1)]
    /\ ExampleProjected =>
          /\ monthrange(SheetYear, SheetMonth) = 30
          /\ out.result.reps_per_day_eod.num
                = 10 * out.result.reps_per_day_eod.den
          /\ out.result.reps_per_day_morning.num
                = 10 * out.result.reps_per_day_morning.den

\* C11 witness: the projection of the example, its paces 200 over 20 and
\* 210 over 21
ProjectionPacesWitness ==
    /\ ExampleProjected
    /\ out.result.reps_per_day_eod = [num |-> 200, den |-> 20]
    /\ out.result.reps_per_day_morning = [num |-> 210, den |-> 21]

(***************************************************************************)
(* The caller's frame.                                                     *)
(***************************************************************************)
\* C12 (as claimed): after clean_exercise_sheet, and after the
\* stratification that calls it, the caller's table is as it was passed in,
\* whether the call returned a record set or failed with an error.
CallerTableUnchanged ==
    (out.op \in {"clean", "stratify"}) => table = out.input

(***************************************************************************)
(* The requested exercise.                                                 *)
(***************************************************************************)
\* a stratification, statistics or projection was asked for
ExerciseAsked == out.op \in {"stratify", "statistics", "projection"}

\* the call had a month record set to filter: the log is not empty, and the
\* projection ran in the month of the sheet
MonthRecordSetGiven ==
    /\ table.rows # <<>>
    /\ out.op = "projection" =>
          <<out.today[1], out.today[2]>> = <<SheetYear, SheetMonth>>

\* the records whose exercise field is the requested string
Matching ==
    {i \in 1..Len(table.rows) : table.rows[i].exercise.v = out.exercise}

\* C13: the stratification, the statistics and the projection fail with
\* the exercise-not-found error, returning no series and no summary,
\* exactly when no record of the month record set has the requested string
\* as its exercise, compared case-sensitively.
ExerciseNotFound ==
    ExerciseAsked =>
        /\ (MonthRecordSetGiven /\ Matching = {})
              => out.result.status = "ExerciseNotFoundError"
        /\ Matching # {} => out.result.status # "ExerciseNotFoundError"
        /\ (MonthRecordSetGiven /\ Matching # {}) => out.result.status = "ok"
        /\ out.result.status = "ExerciseNotFoundError" =>
              IF out.op = "stratify" THEN out.result.series = <<>>
              ELSE DOMAIN out.result = {"status", "warned"}

\* C13 witness: a request for "pushups" that failed with the error on a log
\* of several records, one of them of the exercise "Pushups"
ExerciseNotFoundWitness ==
    /\ ExerciseAsked
    /\ MonthRecordSetGiven
    /\ out.exercise = "pushups"
    /\ Len(table.rows) >= 2
    /\ \E i \in 1..Len(table.rows) : table.rows[i].exercise = Text("Pushups")
    /\ out.result.status = "ExerciseNotFoundError"

(***************************************************************************)
(* The number of series.                                                   *)
(***************************************************************************)
\* the numbers of sets of the exercise on the days 1..dayRange
SetsPerDayInRange ==
    {Cardinality(SetsOn(out.input.rows, out.exercise, d)) :
        d \in 1..DayRange(out.today)}

\* C14 (as claimed): the number N of series is the largest number of sets
\* of the exercise logged on one day of the range 1..dayRange, and the last
\* series holds a logged set on a day of the range.
SeriesCountWithinDayRange ==
    StratifyDone =>
        /\ Len(out.result.series) \in SetsPerDayInRange
        /\ \A k \in SetsPerDayInRange : k <= Len(out.result.series)
        /\ \E d \in 1..DayRange(out.today) :
              Cardinality(SetsOn(out.input.rows, out.exercise, d))
                  >= Len(out.result.series)

(***************************************************************************)
(* The divisors of the projection.                                         *)
(***************************************************************************)
\* C15 (as claimed): on every day of the month, the last included, the
\* divisors of the two paces, daysInMonth - currentDay and
\* daysInMonth - (currentDay - 1), are at least 1: no division by zero.
ProjectionDivisorsPositive ==
    ProjectionDone =>
        /\ out.today[3] \in 1..out.result.days_in_month
        /\ out.result.reps_per_day_eod.den >= 1
        /\ out.result.reps_per_day_morning.den >= 1

====
